---- MODULE Spec2Model ----
(***************************************************************************)
(* A state-machine model of public/script.js, the client-side behaviour of *)
(* the portfolio page: the mobile menu, the theme, the scroll-triggered    *)
(* fade-in and the contact form.  Every handler of the script is one       *)
(* action; the browser (events, timers, stored values) is the environment. *)
(***************************************************************************)
EXTENDS Integers, Sequences, FiniteSets, TLC

VARIABLES
    loaded,        \* DOMContentLoaded has run init.all (listeners attached)
    menu,          \* state.isMenuOpen and its mirrors in the DOM
    menuTrace,     \* observer: the last menu operations, each with the state before it
    scrollRequest, \* the last window.scrollTo request (its top), or NoRequest
    storedAtLoad,  \* observer: what the key 'theme' held when the page loaded
    clickResult,   \* observer: how the last anchor click's handler ended
    defaultPrevented, \* the last anchor click's event had preventDefault called
    lastMenuEvent, \* observer: the last event a navigation listener received
    innerWidth,    \* window.innerWidth
    resizeTimer,   \* the pending timers of the resize debounce, oldest first
    resizeObs,     \* observer: calls since the callback ran, time since the last call
    themeSt,       \* document.documentElement.className and localStorage 'theme'
    themeTrace,    \* observer: the class names before the last theme.toggle calls
    scrollY,       \* window.scrollY
    animated,      \* state.animatedElements
    style,         \* the inline opacity and transform of each fade-in element
    reveals,       \* observer: how often each element's style was written
    animThrottle,  \* inThrottle of the animateOnScroll wrapper
    animCalls,     \* observer: runs and dropped calls of that wrapper in its current window
    scrollHeight,  \* document.documentElement.scrollHeight
    progThrottle,  \* inThrottle of the updateScrollProgress wrapper
    progressWidth, \* the value last written to progressBar.style.width
    fields,        \* the contact form's four field values
    button,        \* the submit button: innerHTML and disabled
    pending,       \* submissions in flight: the originalText each run captured
    msgs,          \* the form-message node in the document and the removal timers
    lastRun,       \* observer: what the last form event did
    vData,         \* form data handed to validateContactForm on its own
    vOut           \* what validateContactForm and isValidEmail returned for it

vars == <<loaded, menu, menuTrace, scrollRequest, clickResult, defaultPrevented,
          lastMenuEvent, innerWidth, resizeTimer, resizeObs, storedAtLoad,
          themeSt, themeTrace, scrollY, animated, style, reveals,
          animThrottle, animCalls, scrollHeight, progThrottle, progressWidth, fields, button, pending, msgs, lastRun, vData, vOut>>

menuVars == <<menu, menuTrace, scrollRequest, clickResult, defaultPrevented,
              lastMenuEvent, innerWidth, resizeTimer, resizeObs>>
themeVars == <<themeSt, themeTrace, storedAtLoad>>
animVars == <<scrollY, animated, style, reveals, animThrottle, animCalls,
              scrollHeight, progThrottle, progressWidth>>
formVars == <<fields, button, pending, msgs, lastRun>>
checkVars == <<vData, vOut>>

(***************************************************************************)
(* Bounds                                                                  *)
(***************************************************************************)
\* Observer traces keep this many operations.
TraceLen == 2

\* Keep the last TraceLen entries of a trace.
Last(s) == IF Len(s) <= TraceLen THEN s ELSE SubSeq(s, Len(s) - TraceLen + 1, Len(s))

(***************************************************************************)
(* Navigation: the mobile menu                                             *)
(***************************************************************************)
\* classList.toggle on a class modelled as a flag.
classToggle(has) == ~has

\* The menu as the markup and line 15 leave it: closed.
MenuClosed ==
    [isMenuOpen |-> FALSE, hidden |-> TRUE, faBars |-> TRUE, faTimes |-> FALSE,
     overflow |-> ""]

toggleMobileMenu_keepOverflow(m) ==
    [m EXCEPT !.isMenuOpen = ~m.isMenuOpen,
              !.hidden = classToggle(m.hidden),
              !.faBars = classToggle(m.faBars),
              !.faTimes = classToggle(m.faTimes),
              !.overflow = "hidden"]

toggleMobileMenu(m) ==
    [m EXCEPT !.isMenuOpen = ~m.isMenuOpen,
              !.hidden = classToggle(m.hidden),
              !.faBars = classToggle(m.faBars),
              !.faTimes = classToggle(m.faTimes),
              !.overflow = IF ~m.isMenuOpen THEN "hidden" ELSE ""]

closeMobileMenu_asToggle(m) == toggleMobileMenu(m)

closeMobileMenu_noIcon(m) ==
    IF m.isMenuOpen
    THEN [m EXCEPT !.isMenuOpen = FALSE, !.hidden = TRUE, !.overflow = ""]
    ELSE m

closeMobileMenu(m) ==
    IF m.isMenuOpen
    THEN [m EXCEPT !.isMenuOpen = FALSE, !.hidden = TRUE, !.faBars = TRUE,
                   !.faTimes = FALSE, !.overflow = ""]
    ELSE m

\* One more operation in the observer's trace.
Traced(op, m) == Last(Append(menuTrace, [op |-> op, before |-> m]))

\* The click listener of the menu button (line 471).
ToggleClick ==
    /\ loaded
    /\ menu' = toggleMobileMenu(menu)
    /\ menuTrace' = Traced("toggle", menu)
    /\ lastMenuEvent' = "toggle"
    /\ UNCHANGED <<loaded, scrollRequest, clickResult, defaultPrevented, innerWidth,
                   resizeTimer, resizeObs>>
    /\ UNCHANGED <<themeVars, animVars, formVars, checkVars>>

\* The hrefs of the anchors the click listener is attached to (a[href^="#"]),
\* as character sequences: one names an element, one names none, one is bare.
Anchors == {<<"#", "a">>, <<"#", "x">>, <<"#">>}

\* The ids of the document's elements and where each element lies.
DocumentIds == {<<"a">>}
offsetTop(id) == 100

ScrollOffset == 80

startsWith(s, c) == Len(s) >= 1 /\ s[1] = c

\* document.querySelector on an id selector: the element's id, "null" when no
\* element has it, "SyntaxError" for the selector "#", which is not valid.
querySelector(sel) ==
    IF Len(sel) < 2 THEN "SyntaxError"
    ELSE IF Tail(sel) \in DocumentIds THEN Tail(sel)
    ELSE "null"

smoothScrollTo_noOffset(id) == offsetTop(id)

smoothScrollTo(id) == offsetTop(id) - ScrollOffset

NoRequest == <<>>

\* The click listener of an anchor.
handleSmoothScroll(href) ==
    /\ loaded
    /\ lastMenuEvent' = "click"
    /\ defaultPrevented' = startsWith(href, "#")
    /\ IF ~startsWith(href, "#")
       THEN /\ clickResult' = "followed"
            /\ UNCHANGED <<menu, menuTrace, scrollRequest>>
       ELSE LET targetElement == querySelector(href) IN
            CASE targetElement = "SyntaxError" ->
                    /\ clickResult' = "threw"
                    /\ UNCHANGED <<menu, menuTrace, scrollRequest>>
              [] targetElement = "null" ->
                    /\ clickResult' = "ignored"
                    /\ UNCHANGED <<menu, menuTrace, scrollRequest>>
              [] OTHER ->
                    /\ clickResult' = "scrolled"
                    /\ scrollRequest' = <<smoothScrollTo(targetElement)>>
                    /\ menu' = closeMobileMenu(menu)
                    /\ menuTrace' = Traced("close", menu)
    /\ UNCHANGED <<loaded, innerWidth, resizeTimer, resizeObs>>
    /\ UNCHANGED <<themeVars, animVars, formVars, checkVars>>

AnchorClick == \E href \in Anchors : handleSmoothScroll(href)

\* The keys of the keydown events.
Keys == {"Escape", "Enter"}

\* The keydown listener of handleKeyboardNavigation.
KeyDown(key) ==
    /\ loaded
    /\ lastMenuEvent' = IF key = "Escape" THEN "escape" ELSE "key"
    /\ IF key = "Escape" /\ menu.isMenuOpen
       THEN /\ menu' = closeMobileMenu(menu)
            /\ menuTrace' = Traced("close", menu)
       ELSE UNCHANGED <<menu, menuTrace>>
    /\ UNCHANGED <<loaded, scrollRequest, clickResult, defaultPrevented, innerWidth,
                   resizeTimer, resizeObs>>
    /\ UNCHANGED <<themeVars, animVars, formVars, checkVars>>

EscapeKey == \E key \in Keys : KeyDown(key)

\* The widths the window is resized to, on both sides of the breakpoint.
Breakpoint == 768
Widths == {Breakpoint, Breakpoint + 1}

\* The debounce delay (250 ms) in ticks of the clock.
DelayTicks == 2

\* Calls of the resize listener the observer counts in one burst.
MaxBurst == 2

debounce_noClear(timers, args) ==
    Append(timers, [left |-> DelayTicks, args |-> args])

\* utils.debounce, one call of the wrapper: clearTimeout(timeoutId) cancels
\* the timer the last call set, if it is still pending, and a new one is set.
debounce(timers, args) ==
    LET cleared == IF timers # <<>> THEN SubSeq(timers, 1, Len(timers) - 1) ELSE timers
    IN Append(cleared, [left |-> DelayTicks, args |-> args])

\* A resize event: the debounced listener is called with the event, here the
\* number of the call in its burst.
Resize ==
    /\ loaded
    /\ resizeObs.burst < MaxBurst
    /\ \E w \in Widths : innerWidth' = w
    /\ resizeTimer' = debounce(resizeTimer, resizeObs.burst + 1)
    /\ resizeObs' = [resizeObs EXCEPT !.burst = @ + 1, !.since = 0]
    /\ lastMenuEvent' = "resize"
    /\ UNCHANGED <<loaded, menu, menuTrace, scrollRequest, clickResult, defaultPrevented>>
    /\ UNCHANGED <<themeVars, animVars, formVars, checkVars>>

\* One tick of time passes for the resize debounce.
Tick ==
    /\ resizeObs.since < DelayTicks \/ \E i \in 1..Len(resizeTimer) : resizeTimer[i].left > 0
    /\ resizeTimer' = [i \in 1..Len(resizeTimer) |->
                         [resizeTimer[i] EXCEPT !.left = IF @ > 0 THEN @ - 1 ELSE 0]]
    /\ resizeObs' = [resizeObs EXCEPT !.since = IF @ < DelayTicks THEN @ + 1 ELSE @]
    /\ UNCHANGED <<loaded, menu, menuTrace, scrollRequest, clickResult, defaultPrevented,
                   lastMenuEvent, innerWidth>>
    /\ UNCHANGED <<themeVars, animVars, formVars, checkVars>>

\* The oldest debounce timer is due and fires: the resize callback runs.
ResizeTimer ==
    /\ resizeTimer # <<>>
    /\ Head(resizeTimer).left = 0
    /\ resizeTimer' = Tail(resizeTimer)
    /\ resizeObs' = [resizeObs EXCEPT !.burst = 0, !.ran = Head(resizeTimer).args]
    /\ lastMenuEvent' = "resized"
    /\ IF innerWidth > Breakpoint /\ menu.isMenuOpen
       THEN /\ menu' = closeMobileMenu(menu)
            /\ menuTrace' = Traced("close", menu)
       ELSE UNCHANGED <<menu, menuTrace>>
    /\ UNCHANGED <<loaded, scrollRequest, clickResult, defaultPrevented, innerWidth>>
    /\ UNCHANGED <<themeVars, animVars, formVars, checkVars>>

(***************************************************************************)
(* Theme                                                                   *)
(***************************************************************************)
\* localStorage.getItem's answer for a key that is not stored.
Null == "(null)"

\* What the key 'theme' may hold when the page loads.
StoredValues == {Null, "", "light", "dark", "blue", "auto"}

\* The root element's class in the markup.
MarkupClass == ""

setTheme(themeName) == [className |-> themeName, stored |-> themeName]

theme_init_nullOnly(t) ==
    setTheme(IF t.stored = Null THEN "light" ELSE t.stored)

\* localStorage.getItem('theme') || 'light': null and "" are falsy.
theme_init(t) ==
    setTheme(IF t.stored = Null \/ t.stored = "" THEN "light" ELSE t.stored)

theme_toggle_alwaysDark(t) == setTheme("dark")

theme_toggle_fromLight(t) ==
    setTheme(IF t.className = "light" THEN "dark" ELSE "light")

theme_toggle(t) ==
    setTheme(IF t.className = "dark" THEN "light" ELSE "dark")

\* A call of theme.toggle (the script wires it to no event; it is exported).
ThemeToggle ==
    /\ loaded
    /\ themeSt' = theme_toggle(themeSt)
    /\ themeTrace' = Last(Append(themeTrace, themeSt.className))
    /\ UNCHANGED storedAtLoad
    /\ UNCHANGED <<loaded, menuVars, animVars, formVars, checkVars>>

(***************************************************************************)
(* Animation: the fade-in on scroll                                        *)
(***************************************************************************)
\* The elements with class animate-fade-in and the top of each in the document.
FadeElements == {"hero", "about", "projects"}
docTop == [e \in FadeElements |->
             CASE e = "hero" -> 2 [] e = "about" -> 8 [] e = "projects" -> 14]

\* window.innerHeight, in the units of docTop.
InnerHeight == 10

\* The scroll positions.
MaxScroll == 8

\* The observer's counters of wrapper calls stop here.
MaxCalls == 2

\* The heights of the document: with a horizontal scrollbar it can be less
\* than window.innerHeight; it can equal it; it can be a page that scrolls.
ScrollHeights == {InnerHeight - 1, InnerHeight, InnerHeight + MaxScroll}

\* The scroll positions that document allows.
scrollRange(h) == 0..(IF h > InnerHeight THEN h - InnerHeight ELSE 0)

\* The fade-in elements that lie in a document of height h.
present(h) == {e \in FadeElements : docTop[e] < h}

\* The observer's counter of style writes stops here.
MaxReveals == 2

\* element.getBoundingClientRect().top at scroll position y.
rectTop(e, y) == docTop[e] - y

\* elementPosition < window.innerHeight * 0.8, in tenths.
aboveFold(e, y) == 10 * rectTop(e, y) < 8 * InnerHeight

shouldReveal_noSetCheck(e, set, y) == aboveFold(e, y)

\* Lines 131-135: not yet animated, and above 80% of the viewport.
shouldReveal(e, set, y) == e \notin set /\ aboveFold(e, y)

InitialStyle == [opacity |-> "", transform |-> ""]
RevealedStyle == [opacity |-> "1", transform |-> "translateY(0)"]

\* The function animateOnScroll wraps, run at scroll position y.
animateOnScroll(y) ==
    LET hit == {e \in present(scrollHeight) : shouldReveal(e, animated, y)} IN
    /\ style' = [e \in FadeElements |-> IF e \in hit THEN RevealedStyle ELSE style[e]]
    /\ animated' = animated \cup hit
    /\ reveals' = [e \in FadeElements |->
                     IF e \in hit /\ reveals[e] < MaxReveals
                     THEN reveals[e] + 1 ELSE reveals[e]]

throttle_noGuard(inThrottle) == [apply |-> TRUE, inThrottle |-> TRUE]

\* utils.throttle, one call of the wrapper: whether func is applied, and
\* inThrottle after the call.
throttle(inThrottle) == [apply |-> ~inThrottle, inThrottle |-> TRUE]

Counted(n) == IF n < MaxCalls THEN n + 1 ELSE n

\* The throttled animateOnScroll: run and open the window, or drop the call.
throttledAnimateOnScroll(y) ==
    LET t == throttle(animThrottle) IN
    /\ animThrottle' = t.inThrottle
    /\ IF t.apply
       THEN /\ animateOnScroll(y)
            /\ animCalls' = [animCalls EXCEPT !.runs = Counted(@)]
       ELSE /\ UNCHANGED <<animated, style, reveals>>
            /\ animCalls' = [animCalls EXCEPT !.dropped = Counted(@)]

\* JavaScript's division of numbers: a quotient, or NaN or an infinity when
\* the divisor is zero.
jsDivide(a, b) ==
    IF b # 0 THEN [kind |-> "number", num |-> a, den |-> b]
    ELSE IF a = 0 THEN [kind |-> "NaN", num |-> 0, den |-> 0]
    ELSE [kind |-> IF a > 0 THEN "Infinity" ELSE "-Infinity", num |-> 0, den |-> 0]

\* x * 100 for such a value.
jsPercent(x) == [x EXCEPT !.num = 100 * @]

updateScrollProgress_guarded(scrollTop, h) ==
    IF h - InnerHeight <= 0 THEN progressWidth
    ELSE jsPercent(jsDivide(scrollTop, h - InnerHeight))

\* The function updateScrollProgress wraps: the width it writes.
updateScrollProgress(scrollTop, h) ==
    LET documentHeight == h - InnerHeight
        scrollPercentage == jsPercent(jsDivide(scrollTop, documentHeight))
    IN scrollPercentage

\* The throttled updateScrollProgress.
throttledUpdateScrollProgress(y) ==
    LET t == throttle(progThrottle) IN
    /\ progThrottle' = t.inThrottle
    /\ IF t.apply
       THEN progressWidth' = updateScrollProgress(y, scrollHeight)
       ELSE UNCHANGED progressWidth

\* A scroll event (a vertical scroll to a new position, or a horizontal one):
\* the animateOnScroll listener, then the updateScrollProgress listener.
Scroll ==
    /\ loaded
    /\ \E y \in scrollRange(scrollHeight) :
          /\ y # scrollY \/ scrollHeight <= InnerHeight
          /\ scrollY' = y
          /\ throttledAnimateOnScroll(y)
          /\ throttledUpdateScrollProgress(y)
    /\ UNCHANGED scrollHeight
    /\ UNCHANGED <<loaded, menuVars, themeVars, formVars, checkVars>>

\* The timer of animateOnScroll's throttle fires.
AnimThrottleTimer ==
    /\ animThrottle
    /\ animThrottle' = FALSE
    /\ animCalls' = [runs |-> 0, dropped |-> 0]
    /\ UNCHANGED <<scrollY, animated, style, reveals, scrollHeight, progThrottle, progressWidth>>
    /\ UNCHANGED <<loaded, menuVars, themeVars, formVars, checkVars>>

\* The timer of updateScrollProgress's throttle fires.
ProgThrottleTimer ==
    /\ progThrottle
    /\ progThrottle' = FALSE
    /\ UNCHANGED <<scrollY, animated, style, reveals, animThrottle, animCalls,
                   scrollHeight, progressWidth>>
    /\ UNCHANGED <<loaded, menuVars, themeVars, formVars, checkVars>>

(***************************************************************************)
(* Start-up                                                                *)
(***************************************************************************)
\* DOMContentLoaded: init.all attaches the listeners, runs the first
\* animation check and applies the stored theme.
InitAll ==
    /\ ~loaded
    /\ loaded' = TRUE
    /\ throttledAnimateOnScroll(scrollY)
    /\ themeSt' = theme_init(themeSt)
    /\ UNCHANGED <<scrollY, scrollHeight, progThrottle, progressWidth>>
    /\ UNCHANGED <<themeTrace, storedAtLoad, menuVars, formVars, checkVars>>

(***************************************************************************)
(* Contact form: validation                                                *)
(***************************************************************************)
\* Strings are sequences of characters; these are the characters that matter
\* to trim and to the email pattern.
Alphabet == {"a", "@", ".", " "}

\* The longest email validateContactForm is applied to.
MaxEmailLen == 6

Strings(n) == UNION {[1..k -> Alphabet] : k \in 0..n}

\* \s of the pattern, and what String.prototype.trim strips.
isSpace(c) == c = " "

RECURSIVE trimStart(_)
trimStart(s) ==
    IF s # <<>> /\ isSpace(Head(s)) THEN trimStart(Tail(s)) ELSE s

RECURSIVE trimEnd(_)
trimEnd(s) ==
    IF s # <<>> /\ isSpace(s[Len(s)]) THEN trimEnd(SubSeq(s, 1, Len(s) - 1)) ELSE s

trim(s) == trimEnd(trimStart(s))

\* [^\s@]
plainChar(c) == ~isSpace(c) /\ c # "@"

\* The pattern ^[^\s@]+@[^\s@]+\.[^\s@]+$ as an automaton: 0 at the start,
\* 1 in the local part, 2 after the @, 3 in the domain, 4 after a dot of
\* the domain, 5 in the last label (accepting).  A dot is also a plain
\* character, so the automaton is run on sets of positions.
emailStep(q, c) ==
    CASE q = 0 -> IF plainChar(c) THEN {1} ELSE {}
      [] q = 1 -> IF plainChar(c) THEN {1} ELSE IF c = "@" THEN {2} ELSE {}
      [] q = 2 -> IF plainChar(c) THEN {3} ELSE {}
      [] q = 3 -> IF c = "." THEN {3, 4} ELSE IF plainChar(c) THEN {3} ELSE {}
      [] q = 4 -> IF plainChar(c) THEN {5} ELSE {}
      [] q = 5 -> IF plainChar(c) THEN {5} ELSE {}

RECURSIVE emailRun(_, _)
emailRun(Q, s) ==
    IF s = <<>> THEN Q
    ELSE emailRun(UNION {emailStep(q, Head(s)) : q \in Q}, Tail(s))

isValidEmail_noDot(email) ==
    \E i \in 2..(Len(email) - 1) :
        /\ email[i] = "@"
        /\ \A j \in 1..Len(email) : j # i => plainChar(email[j])

isValidEmail(email) == 5 \in emailRun({0}, email)

NameMsg == "Please enter your name."
EmailMsg == "Please enter a valid email address."
SubjectMsg == "Please enter a subject."
MessageMsg == "Please enter a message."
SuccessMsg == "Thank you for your message! I'll get back to you soon."

\* The result of validateContactForm and the messages it showed, in order.
Rejected(text) == [ok |-> FALSE, shown |-> <<text>>]
Accepted == [ok |-> TRUE, shown |-> <<>>]

validateContactForm_subjectFirst(data) ==
    IF trim(data.subject) = <<>> THEN Rejected(SubjectMsg)
    ELSE IF trim(data.name) = <<>> THEN Rejected(NameMsg)
    ELSE IF trim(data.email) = <<>> \/ ~isValidEmail(data.email) THEN Rejected(EmailMsg)
    ELSE IF trim(data.message) = <<>> THEN Rejected(MessageMsg)
    ELSE Accepted

validateContactForm_noTrim(data) ==
    IF data.name = <<>> THEN Rejected(NameMsg)
    ELSE IF data.email = <<>> \/ ~isValidEmail(data.email) THEN Rejected(EmailMsg)
    ELSE IF data.subject = <<>> THEN Rejected(SubjectMsg)
    ELSE IF data.message = <<>> THEN Rejected(MessageMsg)
    ELSE Accepted

validateContactForm(data) ==
    IF trim(data.name) = <<>> THEN Rejected(NameMsg)
    ELSE IF trim(data.email) = <<>> \/ ~isValidEmail(data.email) THEN Rejected(EmailMsg)
    ELSE IF trim(data.subject) = <<>> THEN Rejected(SubjectMsg)
    ELSE IF trim(data.message) = <<>> THEN Rejected(MessageMsg)
    ELSE Accepted

(***************************************************************************)
(* Contact form: messages and submission                                   *)
(***************************************************************************)
\* Timers outstanding at once (submissions and message removals).
MaxTimers == 3

FieldNames == {"name", "email", "subject", "message"}

\* The markup's field values, which form.reset() restores: all empty.
FormDefaults == [name |-> <<>>, email |-> <<>>, subject |-> <<>>, message |-> <<>>]

\* What the user types into the fields.
TextInputs == {<<>>, <<" ">>, <<"a">>}
EmailInputs == {<<>>, <<" ">>, <<"a", "@", "b", ".", "c">>, <<"a", "@", "b">>}
Inputs(f) == IF f = "email" THEN EmailInputs ELSE TextInputs

\* The submit button's labels: the markup's and the loading indicator's.
OriginalLabel == "Send Message"
LoadingLabel == "Sending... <i class=\"fas fa-spinner fa-spin ml-2\"></i>"

\* The ids of the message nodes in use, and the first id that is free.
usedIds(ms) ==
    {ms.attached[i].id : i \in 1..Len(ms.attached)} \cup
    {ms.timers[i] : i \in 1..Len(ms.timers)}
freshId(ms) ==
    CHOOSE i \in 1..(Cardinality(usedIds(ms)) + 1) :
        i \notin usedIds(ms) /\ \A j \in 1..(i - 1) : j \in usedIds(ms)

detach_any(nodes, id) == <<>>

\* The document's form-message nodes without node id.
detach(nodes, id) == SelectSeq(nodes, LAMBDA n : n.id # id)

showMessage_keepOld(ms, text, type) ==
    [attached |-> <<[id |-> freshId(ms), text |-> text, type |-> type]>> \o ms.attached,
     timers |-> Append(ms.timers, freshId(ms))]

\* showMessage: remove the first existing message node, insert the new one
\* first, set its removal timer.
showMessage(ms, text, type) ==
    LET id == freshId(ms)
        kept == IF ms.attached # <<>> THEN Tail(ms.attached) ELSE ms.attached
    IN [attached |-> <<[id |-> id, text |-> text, type |-> type]>> \o kept,
        timers |-> Append(ms.timers, id)]

RECURSIVE showAll(_, _, _)
showAll(ms, texts, type) ==
    IF texts = <<>> THEN ms
    ELSE showAll(showMessage(ms, Head(texts), type), Tail(texts), type)

\* The user edits one field.
Input ==
    /\ loaded
    /\ \E f \in FieldNames : \E v \in Inputs(f) \ {fields[f]} :
          fields' = [fields EXCEPT ![f] = v]
    /\ lastRun' = [event |-> "input", shown |-> <<>>, invoked |-> FALSE]
    /\ UNCHANGED <<button, pending, msgs>>
    /\ UNCHANGED <<loaded, menuVars, themeVars, animVars, checkVars>>

\* The button as the handler leaves it on completion.
restoreButton(originalText) == [innerHTML |-> originalText, disabled |-> FALSE]

\* A submit event: handleContactForm up to its await.
handleContactForm ==
    /\ loaded
    /\ Len(msgs.timers) + Len(pending) < MaxTimers
    /\ LET data == fields
           v == validateContactForm(data)
       IN /\ msgs' = showAll(msgs, v.shown, "error")
          /\ IF ~v.ok
             THEN /\ UNCHANGED <<button, pending>>
                  /\ lastRun' = [event |-> "submit", shown |-> v.shown, invoked |-> FALSE]
             ELSE /\ pending' = Append(pending, button.innerHTML)
                  /\ button' = [innerHTML |-> LoadingLabel, disabled |-> TRUE]
                  /\ lastRun' = [event |-> "submit", shown |-> v.shown, invoked |-> TRUE]
    /\ UNCHANGED fields
    /\ UNCHANGED <<loaded, menuVars, themeVars, animVars, checkVars>>

resetForm_keepValues(current) == current

\* form.reset()
resetForm(current) == FormDefaults

\* The 2-second timer of submitContactForm fires and resolves the oldest
\* submission; handleContactForm resumes after its await and runs to its end.
SubmitTimer ==
    /\ pending # <<>>
    /\ msgs' = showMessage(msgs, SuccessMsg, "success")
    /\ fields' = resetForm(fields)
    /\ button' = restoreButton(Head(pending))
    /\ pending' = Tail(pending)
    /\ lastRun' = [event |-> "completed", shown |-> <<SuccessMsg>>, invoked |-> FALSE]
    /\ UNCHANGED <<loaded, menuVars, themeVars, animVars, checkVars>>

\* The 5-second timer of the oldest message fires: messageDiv.remove().
MessageTimer ==
    /\ msgs.timers # <<>>
    /\ msgs' = [attached |-> detach(msgs.attached, Head(msgs.timers)),
                timers |-> Tail(msgs.timers)]
    /\ lastRun' = [event |-> "expired", shown |-> <<>>, invoked |-> FALSE]
    /\ UNCHANGED <<fields, button, pending>>
    /\ UNCHANGED <<loaded, menuVars, themeVars, animVars, checkVars>>

(***************************************************************************)
(* validateContactForm and isValidEmail applied to every input of the      *)
(* bounded sets                                                            *)
(***************************************************************************)
Validate ==
    /\ vOut = <<>>
    /\ vOut' = <<[result |-> validateContactForm(vData),
                  emailOk |-> isValidEmail(vData.email)]>>
    /\ UNCHANGED <<vData, loaded, menuVars, themeVars, animVars, formVars>>

(***************************************************************************)
(* Specifications                                                          *)
(***************************************************************************)
\* The page before DOMContentLoaded.
PageInit ==
    /\ loaded = FALSE
    /\ menu = MenuClosed
    /\ menuTrace = <<>>
    /\ scrollRequest = NoRequest
    /\ clickResult = "none"
    /\ defaultPrevented = FALSE
    /\ lastMenuEvent = "none"
    /\ innerWidth \in Widths
    /\ resizeTimer = <<>>
    /\ resizeObs = [burst |-> 0, since |-> DelayTicks, ran |-> 0]
    /\ themeSt \in {[className |-> MarkupClass, stored |-> v] : v \in StoredValues}
    /\ themeTrace = <<>>
    /\ storedAtLoad = themeSt.stored
    /\ scrollY = 0
    /\ animated = {}
    /\ style = [e \in FadeElements |-> InitialStyle]
    /\ reveals = [e \in FadeElements |-> 0]
    /\ animThrottle = FALSE
    /\ animCalls = [runs |-> 0, dropped |-> 0]
    /\ scrollHeight \in ScrollHeights
    /\ progThrottle = FALSE
    /\ progressWidth = [kind |-> "unset", num |-> 0, den |-> 0]
    /\ fields = FormDefaults
    /\ button = [innerHTML |-> OriginalLabel, disabled |-> FALSE]
    /\ pending = <<>>
    /\ msgs = [attached |-> <<>>, timers |-> <<>>]
    /\ lastRun = [event |-> "none", shown |-> <<>>, invoked |-> FALSE]
    /\ vOut = <<>>

\* A page that scrolls.
Init == PageInit /\ vData = FormDefaults /\ scrollHeight = InnerHeight + MaxScroll

\* Menu and theme.
Next ==
    \/ InitAll
    \/ ToggleClick
    \/ AnchorClick
    \/ EscapeKey
    \/ Resize
    \/ Tick
    \/ ResizeTimer
    \/ ThemeToggle

Spec == Init /\ [][Next]_vars

\* Scrolling.
ScrollNext ==
    \/ InitAll
    \/ Scroll
    \/ AnimThrottleTimer
    \/ ProgThrottleTimer

\* Pages of every height.
ScrollInit == PageInit /\ vData = FormDefaults

ScrollSpec == ScrollInit /\ [][ScrollNext]_vars

\* The contact form, on a page with no stored theme.
FormInit == Init /\ themeSt.stored = Null /\ innerWidth = Breakpoint

FormNext ==
    \/ InitAll
    \/ Input
    \/ handleContactForm
    \/ SubmitTimer
    \/ MessageTimer

FormSpec == FormInit /\ [][FormNext]_vars

\* The browser fires every timer that is set.
FormFairSpec == FormSpec /\ WF_vars(SubmitTimer) /\ WF_vars(MessageTimer)

\* Validation alone.
\* Every email of up to MaxEmailLen characters, with each of the other fields
\* blank, whitespace-only and filled in.
ValidateInit ==
    /\ PageInit /\ themeSt.stored = Null /\ innerWidth = Breakpoint
    /\ scrollHeight = InnerHeight + MaxScroll
    /\ \E n \in TextInputs, e \in Strings(MaxEmailLen), s \in TextInputs, m \in TextInputs :
          vData = [name |-> n, email |-> e, subject |-> s, message |-> m]

ValidateSpec == ValidateInit /\ [][Validate]_vars

(***************************************************************************)
(* Properties                                                              *)
(***************************************************************************)
\* Blank or whitespace-only.
AllSpaces(v) == \A i \in 1..Len(v) : v[i] = " "

\* local@domain.tld: one @, no whitespace, a dot after the @ with something
\* on both sides of it.
WellFormedEmail(v) ==
    \E i \in 2..Len(v) : \E j \in (i + 2)..(Len(v) - 1) :
        /\ v[i] = "@"
        /\ v[j] = "."
        /\ \A k \in 1..Len(v) : k # i => v[k] \notin {" ", "@"}

FilledIn(f, d) ==
    IF f = "email" THEN WellFormedEmail(d[f]) ELSE ~AllSpaces(d[f])

OnlyBlank(f, d) ==
    AllSpaces(d[f]) /\ \A g \in FieldNames \ {f} : FilledIn(g, d)

FieldOrder == <<"name", "email", "subject", "message">>

MsgOf(f) ==
    CASE f = "name" -> NameMsg [] f = "email" -> EmailMsg
      [] f = "subject" -> SubjectMsg [] f = "message" -> MessageMsg

\* The one message node on display has this text and type.
Displays(text, type) ==
    /\ Len(msgs.attached) = 1
    /\ msgs.attached[1].text = text
    /\ msgs.attached[1].type = type

\* C1: a submit event with exactly one field blank or whitespace-only and the
\* other three valid shows exactly one message, that field's, as an error,
\* and does not invoke submitContactForm.
C1_BlankFieldRejected ==
    \A f \in FieldNames :
        (lastRun.event = "submit" /\ OnlyBlank(f, fields)) =>
            /\ lastRun.shown = <<MsgOf(f)>>
            /\ Displays(MsgOf(f), "error")
            /\ ~lastRun.invoked

C1_Witness ==
    /\ lastRun.event = "submit"
    /\ fields.message = <<" ">>
    /\ OnlyBlank("message", fields)
    /\ Displays(MessageMsg, "error")

\* C2: after a run of handleContactForm that passed validation has completed,
\* the submit button is enabled and carries its original label.
C2_ButtonRestored ==
    lastRun.event = "completed" =>
        button = [innerHTML |-> OriginalLabel, disabled |-> FALSE]

SuccessShown ==
    /\ lastRun.event = "completed"
    /\ Displays(SuccessMsg, "success")
    /\ \A f \in FieldNames : fields[f] = <<>>

\* C3: a submit event on a form whose four fields are valid leads to the
\* success message on display and all four fields empty.
C3_ValidSubmitSucceeds ==
    (lastRun.event = "submit" /\ \A f \in FieldNames : FilledIn(f, fields))
        ~> SuccessShown

C3_Witness == SuccessShown /\ pending = <<>>

\* C4: validateContactForm shows exactly the message of the first invalid
\* field in the order name, email, subject, message and returns false; with
\* no invalid field it shows nothing and returns true.
C4_FirstFailureOnly ==
    vOut # <<>> =>
        LET bad == {i \in 1..Len(FieldOrder) : ~FilledIn(FieldOrder[i], vData)}
            first == CHOOSE i \in bad : \A j \in bad : i <= j
        IN IF bad = {}
           THEN vOut[1].result = [ok |-> TRUE, shown |-> <<>>]
           ELSE vOut[1].result = [ok |-> FALSE, shown |-> <<MsgOf(FieldOrder[first])>>]

C4_Witness ==
    /\ vOut # <<>>
    /\ FilledIn("name", vData) /\ ~FilledIn("email", vData)
    /\ ~FilledIn("subject", vData) /\ ~FilledIn("message", vData)
    /\ vOut[1].result.shown = <<EmailMsg>>

HasAt(v) == \E i \in 1..Len(v) : v[i] = "@"
DotAfterAt(v) == \E i \in 1..Len(v) : \E j \in (i + 1)..Len(v) : v[i] = "@" /\ v[j] = "."

\* C5: isValidEmail rejects every string with no @ or with no dot after the
\* @, and accepts local@domain.tld; given a valid name, validateContactForm
\* fails with the email message exactly when the email is blank or
\* isValidEmail rejects it.
C5_EmailCheck ==
    vOut # <<>> =>
        /\ (~HasAt(vData.email) \/ ~DotAfterAt(vData.email)) => ~vOut[1].emailOk
        /\ WellFormedEmail(vData.email) => vOut[1].emailOk
        /\ ~AllSpaces(vData.name) =>
              (vOut[1].result = [ok |-> FALSE, shown |-> <<EmailMsg>>]
                  <=> (AllSpaces(vData.email) \/ ~vOut[1].emailOk))

C5_Witness ==
    /\ vOut # <<>>
    /\ vData.email = <<"a", "@", "a", ".", "a", "a">>
    /\ vOut[1].emailOk
    /\ vOut[1].result.ok

LastOp == menuTrace[Len(menuTrace)]
PrevOp == menuTrace[Len(menuTrace) - 1]

\* C6: closeMobileMenu called with state.isMenuOpen false leaves isMenuOpen,
\* the panel's hidden class, the icon classes and body overflow as they were.
C6_CloseWhenClosed ==
    (Len(menuTrace) >= 1 /\ LastOp.op = "close" /\ ~LastOp.before.isMenuOpen)
        => menu = LastOp.before

C6_Witness ==
    /\ Len(menuTrace) >= 1 /\ LastOp.op = "close" /\ ~LastOp.before.isMenuOpen
    /\ clickResult = "scrolled"

\* C7: two consecutive toggleMobileMenu calls bring isMenuOpen, the hidden
\* class, the icon classes and body overflow back to their earlier values.
C7_ToggleTwice ==
    (Len(menuTrace) >= 2 /\ LastOp.op = "toggle" /\ PrevOp.op = "toggle")
        => menu = PrevOp.before

C7_Witness ==
    /\ Len(menuTrace) >= 2 /\ LastOp.op = "toggle" /\ PrevOp.op = "toggle"
    /\ PrevOp.before.isMenuOpen
    /\ menu.overflow = "hidden"

\* C8: state.animatedElements only grows, and an element's style is written
\* at most once: only when it is not yet in the set and its top is above 80%
\* of the viewport height, and it is then in the set with opacity 1.
C8_RevealOnce ==
    [][\A e \in FadeElements :
          /\ animated \subseteq animated'
          /\ reveals'[e] <= 1
          /\ reveals'[e] # reveals[e] =>
                /\ e \notin animated
                /\ 10 * (docTop[e] - scrollY') < 8 * InnerHeight
                /\ e \in animated'
                /\ style'[e] = RevealedStyle]_vars

C8_Witness ==
    /\ reveals["projects"] = 1
    /\ "projects" \in animated
    /\ style["projects"].opacity = "1"
    /\ scrollY = 0
    /\ animThrottle

ThemeBefore(k) == themeTrace[Len(themeTrace) - k]
Themed(name) == themeSt = [className |-> name, stored |-> name]

\* C9: theme.toggle from root class "light" sets the class and the stored
\* value to "dark", and a second toggle sets both back to "light".
C9_ToggleInvolution ==
    /\ (Len(themeTrace) >= 1 /\ ThemeBefore(0) = "light") => Themed("dark")
    /\ (Len(themeTrace) >= 2 /\ ThemeBefore(1) = "light") => Themed("light")

C9_Witness ==
    Len(themeTrace) >= 2 /\ ThemeBefore(1) = "light" /\ Themed("light")

\* C10 as stated: with a root class other than "light" and "dark" (a stored
\* value theme.init applied), theme.toggle sets class and stored value to
\* "light".
C10_CoercedToLight ==
    (Len(themeTrace) >= 1 /\ ThemeBefore(0) \notin {"light", "dark"})
        => Themed("light")

\* C10, amended: with a root class other than "light" and "dark" (a stored
\* value theme.init applied), theme.toggle sets class and stored value to
\* "dark".
C10_CoercedToDark ==
    (Len(themeTrace) >= 1 /\ ThemeBefore(0) \notin {"light", "dark"})
        => Themed("dark")

C10_Witness ==
    Len(themeTrace) >= 1 /\ ThemeBefore(0) = "blue" /\ Themed("dark")

AnimEffects == <<animated, style, reveals>>

\* C11: the function wrapped by utils.throttle runs at most once per window,
\* and only with the window closed; a call that arrives while the window is
\* open changes nothing, and the firing of the window's timer runs nothing
\* (no trailing call).
C11_ThrottleOncePerWindow ==
    [][/\ animCalls'.runs <= 1
       /\ animCalls'.runs > animCalls.runs => (~animThrottle /\ animThrottle')
       /\ (animThrottle /\ animThrottle') =>
             (AnimEffects' = AnimEffects /\ animCalls'.runs = animCalls.runs)
       /\ (animThrottle /\ ~animThrottle') =>
             (AnimEffects' = AnimEffects /\ animCalls'.runs = 0)]_vars

\* Two calls were dropped in an open window although the second would have
\* revealed an element.
C11_Witness ==
    /\ animThrottle
    /\ animCalls = [runs |-> 1, dropped |-> 2]
    /\ \E e \in present(scrollHeight) : shouldReveal(e, animated, scrollY)

\* What line 157 computes for a scroll position and a document height.
ExpectedWidth(y, h) ==
    IF h = InnerHeight
    THEN [kind |-> IF y = 0 THEN "NaN" ELSE "Infinity", num |-> 0, den |-> 0]
    ELSE [kind |-> "number", num |-> 100 * y, den |-> h - InnerHeight]

\* C17: every call of updateScrollProgress that passes its throttle writes
\* scrollY / (scrollHeight - innerHeight) * 100 as the width, also when
\* scrollHeight - innerHeight is zero or negative.
C17_ProgressUnguarded ==
    [][(~progThrottle /\ progThrottle') =>
          progressWidth' = ExpectedWidth(scrollY', scrollHeight)]_vars

C17_Witness ==
    /\ scrollHeight - InnerHeight = 0
    /\ progressWidth = [kind |-> "NaN", num |-> 0, den |-> 0]

\* The document shorter than the viewport: a negative percentage is written.
C17_NegativeWritten ==
    /\ scrollHeight - InnerHeight < 0
    /\ progressWidth = [kind |-> "number", num |-> 0, den |-> scrollHeight - InnerHeight]

\* C12: the function wrapped by utils.debounce runs only when no call of the
\* wrapper occurred within the last DelayTicks; a call leaves one timer
\* pending, having cancelled the earlier one; the run that ends a burst gets
\* the arguments of the burst's last call and leaves no timer behind.
C12_DebounceAfterQuiet ==
    [][/\ Len(resizeTimer') <= 1
       /\ (resizeObs'.burst >= 1) <=> (resizeTimer' # <<>>)
       /\ Len(resizeTimer') < Len(resizeTimer) =>
             /\ resizeObs.since = DelayTicks
             /\ resizeObs.burst >= 1
             /\ resizeObs'.ran = resizeObs.burst
             /\ resizeObs'.burst = 0
             /\ resizeTimer' = <<>>]_vars

C12_Witness ==
    /\ lastMenuEvent = "resized"
    /\ resizeObs.ran >= 2
    /\ resizeObs.burst = 0
    /\ resizeTimer = <<>>

\* C13: a click on an anchor whose href starts with '#' never raises an
\* error, and with no matching element nothing is scrolled and the menu is
\* left as it was.
C13_NoErrorPath ==
    (lastMenuEvent = "click" /\ defaultPrevented) =>
        clickResult \in {"scrolled", "ignored"}

\* The part of C13 about an href that matches no element.
C13_NoTargetNoEffect ==
    [][(lastMenuEvent' = "click" /\ clickResult' = "ignored") =>
          (scrollRequest' = scrollRequest /\ menu' = menu)]_vars

Attached(id) == \E i \in 1..Len(msgs.attached) : msgs.attached[i].id = id
TimerPending(id) == \E i \in 1..Len(msgs.timers) : msgs.timers[i] = id

\* C14: at most one form-message node is in the document; every node in the
\* document has its removal timer pending, and from every moment on there is
\* a later one at which the node is out of the document.
C14_OneMessage ==
    /\ [](Len(msgs.attached) <= 1)
    /\ [](\A id \in 1..MaxTimers : Attached(id) => TimerPending(id))
    /\ \A id \in 1..MaxTimers : []<>~Attached(id)

C14_Witness ==
    /\ lastRun.event = "completed"
    /\ Len(msgs.attached) = 1
    /\ Len(msgs.timers) >= 2

\* C15: a message node leaves the document only when its own timer fires
\* or when a new message is shown; the timer of a superseded message
\* removes nothing.
C15_StaleTimerHarmless ==
    [][\A i \in 1..Len(msgs.attached) :
          LET node == msgs.attached[i] IN
          (\A j \in 1..Len(msgs'.attached) : msgs'.attached[j] # node) =>
              \/ /\ msgs.timers # <<>>
                 /\ Head(msgs.timers) = node.id
                 /\ msgs'.timers = Tail(msgs.timers)
              \/ Len(msgs'.timers) > Len(msgs.timers)]_vars

C15_Witness ==
    /\ lastRun.event = "expired"
    /\ Len(msgs.attached) = 1
    /\ TimerPending(msgs.attached[1].id)

\* C16: a click on an anchor whose href names an element prevents the
\* default navigation, requests a scroll to the element's offsetTop minus 80
\* and leaves the menu closed.
C16_ScrollAndClose ==
    (lastMenuEvent = "click" /\ clickResult = "scrolled") =>
        /\ defaultPrevented
        /\ \E id \in DocumentIds : scrollRequest = <<offsetTop(id) - ScrollOffset>>
        /\ menu = MenuClosed

C16_Witness ==
    /\ lastMenuEvent = "click" /\ clickResult = "scrolled"
    /\ Len(menuTrace) >= 1 /\ LastOp.op = "close" /\ LastOp.before.isMenuOpen
    /\ scrollRequest = <<20>>

Mirrors(m) ==
    /\ m.isMenuOpen <=> ~m.hidden
    /\ m.isMenuOpen <=> (m.faTimes /\ ~m.faBars)
    /\ m.isMenuOpen <=> (m.overflow = "hidden")

\* C18: isMenuOpen is true exactly when the panel lacks 'hidden', when the
\* icon has fa-times and not fa-bars, and when body overflow is 'hidden';
\* after an Escape key-down, and after the resize callback with a width
\* over 768, the menu is closed.
C18_MenuMirrors ==
    /\ Mirrors(menu)
    /\ lastMenuEvent = "escape" => ~menu.isMenuOpen
    /\ (lastMenuEvent = "resized" /\ innerWidth > Breakpoint) => ~menu.isMenuOpen

C18_Witness ==
    /\ lastMenuEvent = "resized" /\ innerWidth > Breakpoint
    /\ Len(menuTrace) >= 2 /\ LastOp.op = "close" /\ LastOp.before.isMenuOpen
    /\ PrevOp.op = "toggle"
    /\ menu = MenuClosed

StaysTwoValued ==
    storedAtLoad \in {Null, "light", "dark"} => themeSt.className \in {"light", "dark"}

\* C19 as stated: once loaded, the stored value equals the root class;
\* theme.init applies the stored value, or "light" when none is stored; from
\* absent, "light" or "dark" the theme stays "light" or "dark".
C19_InitAppliesStored ==
    loaded =>
        /\ themeSt.stored = themeSt.className
        /\ themeTrace = <<>> =>
              themeSt.className = (IF storedAtLoad = Null THEN "light" ELSE storedAtLoad)
        /\ StaysTwoValued

\* C19, amended: theme.init applies "light" also when the stored value is the
\* empty string.
C19_InitAppliesStoredOrLight ==
    loaded =>
        /\ themeSt.stored = themeSt.className
        /\ themeTrace = <<>> =>
              themeSt.className =
                  (IF storedAtLoad \in {Null, ""} THEN "light" ELSE storedAtLoad)
        /\ StaysTwoValued

C19_Witness ==
    loaded /\ themeTrace = <<>> /\ storedAtLoad = "" /\ Themed("light")

\* C20: the submit button is disabled or carries the loading label only
\* while a submission is pending.
C20_LoadingOnlyWhilePending ==
    (button.disabled \/ button.innerHTML = LoadingLabel) => pending # <<>>

\* The parts of C20 that hold: a submit event that fails validation leaves
\* the button and the pending submissions as they were, and a disabled
\* button has a submission pending.
C20_FailedSubmitFrame ==
    [][(lastRun'.event = "submit" /\ ~lastRun'.invoked) =>
          (button' = button /\ pending' = pending)]_vars

C20_DisabledWhilePending ==
    button.disabled => (button.innerHTML = LoadingLabel /\ pending # <<>>)

====
